---- MODULE Spec2Model ----
(***************************************************************************)
(* Model of main.py: the stream generator simulate_data_stream, the three  *)
(* statistics moving_average / standard_deviation / z_score, and the       *)
(* driver detect_anomalies_with_visualization with its timer callback      *)
(* update().                                                               *)
(*                                                                         *)
(* Numbers are exact.  A float that the program obtains by +,-,*,/ from    *)
(* the inputs is a rational  [t |-> "num", n, d]  (n/d, d > 0, lowest      *)
(* terms); a float obtained through np.std (a square root) is a signed     *)
(* root  [t |-> "num", s, n, d]  standing for s * sqrt(n/d).  t = "nan" is *)
(* IEEE NaN, t = "str" is a non-numeric element, t = "none" is None.       *)
(***************************************************************************)
EXTENDS Integers, Sequences, FiniteSets, TLC

VARIABLES
    \* detect_anomalies_with_visualization
    phase,                  \* "entry" | "raised" | "setup_error" | "running"
    window_size,            \* argument
    z_threshold,            \* argument (rational)
    data_points,            \* list of values
    time_points,            \* list of time indices
    anomaly_points,         \* list of [time, value, z]
    table_widget,           \* rows of the main table
    anomaly_table_widget,   \* rows of the anomaly table
    curve,                  \* what curve.setData was last given
    scatter,                \* what scatter.setData was last given
    timer,                  \* TRUE while the QTimer is active
    ticks,                  \* number of update() calls so far
    outcome,                \* what next(data_stream) did in the last update()
    z,                      \* local z of the last update() (None when not computed)
    \* simulate_data_stream
    duration,               \* argument
    interval,               \* argument
    gen_state,              \* "absent" | "created" | "suspended" | "finished"
    gen_raised,             \* TRUE once ValueError has left the generator
    now,                    \* time.time()
    start_time,             \* local start_time
    yielded,                \* elapsed time (current_time) of every value yielded
    jitter,                 \* TRUE once any time beyond the sleeps has passed
    \* a call of one of the pure functions
    arg_data, arg_window, arg_point, arg_mean, arg_std,
    fn_called,              \* "none" or the name of the function applied
    fn_ret                  \* its return value

drv_vars == <<phase, window_size, z_threshold, data_points, time_points,
              anomaly_points, table_widget, anomaly_table_widget, curve,
              scatter, timer, ticks, outcome, z>>
gen_vars == <<duration, interval, gen_state, gen_raised, now, start_time,
              yielded, jitter>>
fn_vars == <<arg_data, arg_window, arg_point, arg_mean, arg_std, fn_called,
             fn_ret>>
vars == <<drv_vars, gen_vars, fn_vars>>

---------------------------------------------------------------------------
(* Bounds of the model *)

MaxLen == 3
MaxTicks == 5
MaxWindow == 3
MaxDuration == 5
MaxInterval == 3
MaxOverrun == 1

---------------------------------------------------------------------------
(* Exact arithmetic *)

Abs(i) == IF i < 0 THEN -i ELSE i

Sign(i) == IF i < 0 THEN -1 ELSE IF i > 0 THEN 1 ELSE 0

Max(a, b) == IF a >= b THEN a ELSE b

Min(a, b) == IF a <= b THEN a ELSE b

RECURSIVE GCD(_, _)
GCD(a, b) == IF b = 0 THEN a ELSE GCD(b, a % b)

\* the rational n/d (d # 0) in lowest terms with a positive denominator
Rat(n, d) ==
    LET g == GCD(Abs(n), Abs(d))
        sg == IF d < 0 THEN -1 ELSE 1
    IN  [t |-> "num", n |-> sg * (n \div g), d |-> Abs(d) \div g]

Int2Rat(i) == Rat(i, 1)

NaN == [t |-> "nan", n |-> 0, d |-> 0]

Str == [t |-> "str", n |-> 0, d |-> 0]

RAdd(a, b) == Rat(a.n * b.d + b.n * a.d, a.d * b.d)

RSub(a, b) == Rat(a.n * b.d - b.n * a.d, a.d * b.d)

RMul(a, b) == Rat(a.n * b.n, a.d * b.d)

RDiv(a, b) == Rat(a.n * b.d, a.d * b.n)

RLess(a, b) == a.n * b.d < b.n * a.d

\* s * sqrt(q) for a rational q >= 0; s is 0 exactly when q is 0
Root(s, q) == [t |-> "num", s |-> IF q.n = 0 THEN 0 ELSE s, n |-> q.n, d |-> q.d]

RootNaN == [t |-> "nan", s |-> 0, n |-> 0, d |-> 0]

None == [t |-> "none", s |-> 0, n |-> 0, d |-> 0]

\* the square of a signed root, a rational
Sq(r) == Rat(r.n, r.d)

RECURSIVE ISqrtIn(_, _, _)
ISqrtIn(m, lo, hi) ==
    IF lo >= hi THEN lo
    ELSE LET mid == (lo + hi + 1) \div 2
         IN  IF mid * mid <= m THEN ISqrtIn(m, mid, hi) ELSE ISqrtIn(m, lo, mid - 1)

\* floor of the square root of a natural number
ISqrt(m) == ISqrtIn(m, 0, m)

---------------------------------------------------------------------------
(* The statistics: moving_average, standard_deviation, z_score *)

\* data[:window_size]: the first elements instead of the last
PySliceFirst(data, wsize) ==
    SubSeq(data, 1, Min(Max(wsize, 0), Len(data)))

\* data[-window_size:] with Python's slice rules: a negative start counts from
\* the end and is clipped to 0, a start of 0 or more counts from the front

\* data[-window_size-1:-1]: the window that ends before the last element
PySliceBeforeLast(data, wsize) ==
    LET start == -wsize - 1
        begin == IF start < 0 THEN Max(Len(data) + start, 0)
                              ELSE Min(start, Len(data))
    IN  SubSeq(data, begin + 1, Max(Len(data) - 1, 0))

PySliceLast(data, wsize) ==
    LET start == -wsize
        begin == IF start < 0 THEN Max(Len(data) + start, 0)
                              ELSE Min(start, Len(data))
    IN  SubSeq(data, begin + 1, Len(data))

\* numpy cannot reduce an array that holds a non-numeric element: it raises
NpRaises(win) == \E i \in 1..Len(win) : win[i].t = "str"

HasNaN(win) == \E i \in 1..Len(win) : win[i].t = "nan"

RECURSIVE RSum(_)
RSum(win) == IF win = <<>> THEN Int2Rat(0) ELSE RAdd(Head(win), RSum(Tail(win)))

\* np.mean of a numeric array: 0/0 = nan (a warning, no exception) when empty
np_mean(win) ==
    IF Len(win) = 0 \/ HasNaN(win) THEN NaN
    ELSE RDiv(RSum(win), Int2Rat(Len(win)))

\* np.std of a numeric array: sqrt(mean(abs(x - x.mean())**2)), ddof = 0
np_std(win) ==
    IF Len(win) = 0 \/ HasNaN(win) THEN RootNaN
    ELSE LET m == np_mean(win)
             dev == [i \in 1..Len(win) |->
                        RMul(RSub(win[i], m), RSub(win[i], m))]
         IN  Root(1, RDiv(RSum(dev), Int2Rat(Len(win))))

moving_average(data, wsize) ==
    LET win == PySliceLast(data, wsize)
    IN  IF NpRaises(win) THEN Int2Rat(0) ELSE np_mean(win)

standard_deviation(data, wsize) ==
    LET win == PySliceLast(data, wsize)
    IN  IF NpRaises(win) THEN Root(0, Int2Rat(0)) ELSE np_std(win)

\* (data_point - mean) / std_dev if std_dev > 0 else 0, and 0 on any exception.
\* A NaN std_dev compares False; a non-number in the comparison or in the
\* subtraction raises TypeError, which the except turns into 0.
z_score_swapped(data_point, mean, std_dev) ==
    IF std_dev.t # "num" \/ std_dev.s <= 0 THEN Root(0, Int2Rat(0))
    ELSE IF data_point.t = "str" \/ mean.t = "str" THEN Root(0, Int2Rat(0))
    ELSE IF data_point.t = "nan" \/ mean.t = "nan" THEN RootNaN
    ELSE LET diff == RSub(mean, data_point)
         IN  Root(Sign(diff.n), RDiv(RMul(diff, diff), Sq(std_dev)))

z_score(data_point, mean, std_dev) ==
    IF std_dev.t # "num" \/ std_dev.s <= 0 THEN Root(0, Int2Rat(0))
    ELSE IF data_point.t = "str" \/ mean.t = "str" THEN Root(0, Int2Rat(0))
    ELSE IF data_point.t = "nan" \/ mean.t = "nan" THEN RootNaN
    ELSE LET diff == RSub(data_point, mean)
         IN  Root(Sign(diff.n), RDiv(RMul(diff, diff), Sq(std_dev)))

---------------------------------------------------------------------------
(* States in which a component has not been used *)

DrvIdle ==
    /\ phase = "entry"
    /\ window_size = 1
    /\ z_threshold = Int2Rat(1)
    /\ data_points = <<>>
    /\ time_points = <<>>
    /\ anomaly_points = <<>>
    /\ table_widget = <<>>
    /\ anomaly_table_widget = <<>>
    /\ curve = <<>>
    /\ scatter = <<>>
    /\ timer = FALSE
    /\ ticks = 0
    /\ outcome = "none"
    /\ z = None

GenIdle ==
    /\ duration = 1
    /\ interval = 1
    /\ gen_state = "absent"
    /\ gen_raised = FALSE
    /\ now = 0
    /\ start_time = 0
    /\ yielded = <<>>
    /\ jitter = FALSE

FnIdle ==
    /\ arg_data = <<>>
    /\ arg_window = 1
    /\ arg_point = Int2Rat(0)
    /\ arg_mean = Int2Rat(0)
    /\ arg_std = Root(0, Int2Rat(0))
    /\ fn_called = "none"
    /\ fn_ret = None

---------------------------------------------------------------------------
(* One call of a statistics function on inputs drawn from bounded sets *)

FnVals == {Int2Rat(-2), Int2Rat(0), Int2Rat(1), Int2Rat(3), Str}

FnData == UNION {[1..k -> FnVals] : k \in 0..MaxLen}

FnWindows == (-1)..(MaxLen + 1)

\* the window of test_moving_average and test_standard_deviation
TestData == <<Int2Rat(1), Int2Rat(2), Int2Rat(3), Int2Rat(4), Int2Rat(5)>>

FnPoints == {Int2Rat(-2), Int2Rat(0), Rat(1, 2), Int2Rat(10), Str, NaN}

FnMeans == {Int2Rat(-1), Int2Rat(0), Rat(1, 3), Int2Rat(5), NaN}

FnStds == {Root(-1, Int2Rat(1)), Root(0, Int2Rat(0)), Root(1, Rat(1, 4)),
           Root(1, Int2Rat(2)), Root(1, Int2Rat(4)), RootNaN}

InitFn ==
    /\ DrvIdle
    /\ GenIdle
    /\ fn_called = "none"
    /\ fn_ret = None
    /\ \/ /\ arg_data \in FnData
          /\ arg_window \in FnWindows
          /\ arg_point = Int2Rat(0) /\ arg_mean = Int2Rat(0)
          /\ arg_std = Root(0, Int2Rat(0))
       \/ /\ arg_data = TestData
          /\ arg_window = 3
          /\ arg_point = Int2Rat(0) /\ arg_mean = Int2Rat(0)
          /\ arg_std = Root(0, Int2Rat(0))
       \/ /\ arg_data = <<>> /\ arg_window = 1
          /\ arg_point \in FnPoints
          /\ arg_mean \in FnMeans
          /\ arg_std \in FnStds

CallMovingAverage ==
    /\ fn_called = "none"
    /\ fn_called' = "moving_average"
    /\ fn_ret' = moving_average(arg_data, arg_window)
    /\ UNCHANGED <<arg_data, arg_window, arg_point, arg_mean, arg_std>>
    /\ UNCHANGED <<drv_vars, gen_vars>>

CallStandardDeviation ==
    /\ fn_called = "none"
    /\ fn_called' = "standard_deviation"
    /\ fn_ret' = standard_deviation(arg_data, arg_window)
    /\ UNCHANGED <<arg_data, arg_window, arg_point, arg_mean, arg_std>>
    /\ UNCHANGED <<drv_vars, gen_vars>>

CallZScore ==
    /\ fn_called = "none"
    /\ fn_called' = "z_score"
    /\ fn_ret' = z_score(arg_point, arg_mean, arg_std)
    /\ UNCHANGED <<arg_data, arg_window, arg_point, arg_mean, arg_std>>
    /\ UNCHANGED <<drv_vars, gen_vars>>

NextFn == CallMovingAverage \/ CallStandardDeviation \/ CallZScore

SpecFn == InitFn /\ [][NextFn]_vars

---------------------------------------------------------------------------
(* Claims about the statistics *)

\* the sum of data[lo..hi], by index
RECURSIVE SumIdx(_, _, _)
SumIdx(data, lo, hi) ==
    IF lo > hi THEN Int2Rat(0) ELSE RAdd(data[lo], SumIdx(data, lo + 1, hi))

AllNumbers(data) == \A i \in 1..Len(data) : data[i].t = "num"

\* C4: z_score(value, mean, std_dev) is the number r with
\* r * std_dev = value - mean whenever std_dev > 0 (same sign as value - mean,
\* r^2 * std_dev^2 = (value - mean)^2), e.g. z_score(10, 5, 2) = 5/2; and it
\* is 0 for every value and every mean, numeric or not, whenever std_dev = 0.
C4_ZScore ==
    (fn_called = "z_score" /\ arg_std.t = "num") =>
        /\ (arg_std.s > 0 /\ arg_point.t = "num" /\ arg_mean.t = "num") =>
              /\ fn_ret.t = "num"
              /\ fn_ret.s = Sign(RSub(arg_point, arg_mean).n)
              /\ RMul(Sq(fn_ret), Sq(arg_std))
                    = RMul(RSub(arg_point, arg_mean), RSub(arg_point, arg_mean))
        /\ (arg_point = Int2Rat(10) /\ arg_mean = Int2Rat(5)
                /\ arg_std = Root(1, Int2Rat(4))) =>
              fn_ret = Root(1, Rat(25, 4))
        /\ arg_std.s = 0 => (fn_ret.t = "num" /\ fn_ret.s = 0 /\ fn_ret.n = 0)

C4_Witness ==
    /\ fn_called = "z_score"
    /\ arg_point = Int2Rat(10) /\ arg_mean = Int2Rat(5)
    /\ arg_std = Root(1, Int2Rat(4))
    /\ fn_ret = Root(1, Rat(25, 4))

\* C5: for a numeric history and 1 <= window_size <= len(history),
\* moving_average(history, window_size) * window_size is the sum of the last
\* window_size elements of history; [1,2,3,4,5] with window_size 3 gives 4.
C5_MovingAverage ==
    (fn_called = "moving_average" /\ AllNumbers(arg_data)
        /\ 1 <= arg_window /\ arg_window <= Len(arg_data)) =>
        /\ fn_ret.t = "num"
        /\ RMul(fn_ret, Int2Rat(arg_window))
              = SumIdx(arg_data, Len(arg_data) - arg_window + 1, Len(arg_data))
        /\ (arg_data = TestData /\ arg_window = 3) => fn_ret = Int2Rat(4)

C5_Witness ==
    /\ fn_called = "moving_average"
    /\ arg_data = TestData /\ arg_window = 3
    /\ fn_ret = Int2Rat(4)

\* C7: moving_average and standard_deviation return 0 on an empty history and
\* on a window that holds a malformed (non-numeric) element.
C7_ZeroFallback ==
    (/\ fn_called \in {"moving_average", "standard_deviation"}
     /\ \/ arg_data = <<>>
        \/ (arg_window >= 1 /\ arg_data # <<>>
               /\ arg_data[Len(arg_data)].t = "str")) =>
        (fn_ret.t = "num" /\ fn_ret.n = 0)

---------------------------------------------------------------------------
(* simulate_data_stream: a generator function.  Calling it only creates     *)
(* the generator object; its body, the argument check included, runs when   *)
(* the first value is requested.  Time is counted in whole units.           *)

InvalidStreamArgs(dur, intv) == dur <= 0 \/ intv <= 0

LoopCondLeq(elapsed, dur) == elapsed <= dur

\* while (time.time() - start_time) < duration
LoopCond(elapsed, dur) == elapsed < dur

InitGen ==
    /\ DrvIdle
    /\ FnIdle
    /\ duration \in (-1)..MaxDuration
    /\ interval \in (-1)..MaxInterval
    /\ gen_state = "absent"
    /\ gen_raised = FALSE
    /\ now = 0
    /\ start_time = 0
    /\ yielded = <<>>
    /\ jitter = FALSE

\* generator = simulate_data_stream(duration, interval)
GenCall ==
    /\ gen_state = "absent"
    /\ gen_state' = "created"
    /\ UNCHANGED <<duration, interval, gen_raised, now, start_time, yielded, jitter>>
    /\ UNCHANGED <<drv_vars, fn_vars>>

\* the consumer takes a unit of time before it asks for the next value
Elapse ==
    /\ gen_state \in {"created", "suspended"}
    /\ now < MaxDuration + MaxInterval
    /\ now' = now + 1
    /\ jitter' = (jitter \/ gen_state = "suspended")
    /\ UNCHANGED <<duration, interval, gen_state, gen_raised, start_time, yielded>>
    /\ UNCHANGED <<drv_vars, fn_vars>>

\* the first next(generator): the body runs from its first line
GenStart ==
    /\ gen_state = "created"
    /\ IF InvalidStreamArgs(duration, interval)
       THEN /\ gen_raised' = TRUE
            /\ gen_state' = "finished"
            /\ UNCHANGED <<start_time, yielded>>
       ELSE /\ start_time' = now
            /\ IF LoopCond(now - now, duration)
               THEN /\ yielded' = Append(yielded, now - now)
                    /\ gen_state' = "suspended"
               ELSE /\ gen_state' = "finished"
                    /\ UNCHANGED yielded
            /\ UNCHANGED gen_raised
    /\ UNCHANGED <<duration, interval, now, jitter>>
    /\ UNCHANGED <<drv_vars, fn_vars>>

\* a later next(generator): resume after the yield, sleep, test the loop
GenResume ==
    /\ gen_state = "suspended"
    /\ \E over \in 0..MaxOverrun :
          /\ now' = now + interval + over
          /\ jitter' = (jitter \/ over > 0)
    /\ IF LoopCond(now' - start_time, duration)
       THEN /\ yielded' = Append(yielded, now' - start_time)
            /\ UNCHANGED gen_state
       ELSE /\ gen_state' = "finished"
            /\ UNCHANGED yielded
    /\ UNCHANGED <<duration, interval, gen_raised, start_time>>
    /\ UNCHANGED <<drv_vars, fn_vars>>

\* next() of a finished generator raises StopIteration and changes nothing
GenExhausted ==
    /\ gen_state = "finished"
    /\ UNCHANGED vars

GenNext == GenStart \/ GenResume \/ GenExhausted

NextGen == GenCall \/ Elapse \/ GenNext

\* the consumer iterates to exhaustion: it keeps calling next()
SpecGen == InitGen /\ [][NextGen]_vars /\ WF_vars(GenStart) /\ WF_vars(GenResume)

---------------------------------------------------------------------------
(* Claims about the generator *)

\* C2: simulate_data_stream(duration, interval) with duration <= 0 or
\* interval <= 0 has raised ValueError as soon as the call has been made.
C2_FailsAtCall ==
    (gen_state # "absent" /\ (duration <= 0 \/ interval <= 0)) => gen_raised

\* C6: for positive duration and interval, no value is emitted at an elapsed
\* time >= duration; when every wait lasted exactly interval, the number of
\* values yielded never exceeds duration // interval + 1 and, once the
\* generator has ended, differs from duration // interval by at most 1; and
\* a generator that is iterated always ends.
C6_Counts ==
    (duration > 0 /\ interval > 0) =>
        /\ \A k \in 1..Len(yielded) : yielded[k] < duration
        /\ ~jitter => Len(yielded) <= (duration \div interval) + 1
        /\ (gen_state = "finished" /\ ~jitter) =>
              /\ Len(yielded) >= (duration \div interval) - 1
              /\ Len(yielded) <= (duration \div interval) + 1

C6_Stream == []C6_Counts /\ ((gen_state = "created") ~> (gen_state = "finished"))

C6_Witness ==
    /\ gen_state = "finished" /\ ~jitter
    /\ duration = 5 /\ interval = 1
    /\ Len(yielded) = 5

---------------------------------------------------------------------------
(* detect_anomalies_with_visualization and its timer callback update()      *)

\* str(time) for a time index: its decimal digits, most significant first
RECURSIVE PyStr(_)
PyStr(i) == IF i < 10 THEN <<i>> ELSE Append(PyStr(i \div 10), i % 10)

\* int(text), as on_click reads a time cell back
RECURSIVE PyInt(_)
PyInt(text) ==
    IF Len(text) = 0 THEN 0
    ELSE 10 * PyInt(SubSeq(text, 1, Len(text) - 1)) + text[Len(text)]

\* the nearest integer to num/den (num >= 0, den > 0), ties to even
RoundHalfEven(num, den) ==
    LET f == num \div den
        r == 2 * (num % den)
    IN  IF r > den \/ (r = den /\ f % 2 = 1) THEN f + 1 ELSE f

\* the nearest integer to sqrt(num/den) (num >= 0, den > 0), ties to even
RoundRoot(num, den) ==
    LET f == ISqrt(num \div den)
        lhs == 4 * num
        rhs == (2 * f + 1) * (2 * f + 1) * den
    IN  IF lhs > rhs \/ (lhs = rhs /\ f % 2 = 1) THEN f + 1 ELSE f

\* f"{value:.2f}": a sign and a number of hundredths, or "nan"
Fmt2(value) ==
    IF value.t = "nan" THEN [kind |-> "nan", neg |-> FALSE, cents |-> 0]
    ELSE [kind |-> "fixed", neg |-> value.n < 0,
          cents |-> RoundHalfEven(100 * Abs(value.n), value.d)]

\* f"{z_score:.2f}" if z_score is not None else "N/A"
Fmt2Z(zv) ==
    IF zv.t = "none" THEN [kind |-> "N/A", neg |-> FALSE, cents |-> 0]
    ELSE IF zv.t = "nan" THEN [kind |-> "nan", neg |-> FALSE, cents |-> 0]
    ELSE [kind |-> "fixed", neg |-> zv.s < 0,
          cents |-> RoundRoot(10000 * zv.n, zv.d)]

add_row_to_anomaly_table(rows, time, value, zv) ==
    Append(rows, [time |-> PyStr(time), value |-> Fmt2(value),
                  z_score |-> Fmt2Z(zv)])

add_row_to_table(rows, time, value, zv, is_anomaly) ==
    Append(rows, [time |-> PyStr(time), value |-> Fmt2(value),
                  z_score |-> Fmt2Z(zv), highlighted |-> is_anomaly])

InvalidArgsStrict(wsize, thr) == wsize < 0 \/ thr.n < 0

\* if window_size <= 0 or z_threshold <= 0: raise ValueError
InvalidArgs(wsize, thr) == wsize <= 0 \/ thr.n <= 0

FrameAfter(data) == Len(data) + 1

\* frame = len(data_points), taken before the append
Frame(data) == Len(data)

ShouldScoreGeq(n, wsize) == n >= wsize

\* if len(data_points) > window_size
ShouldScore(n, wsize) == n > wsize

IsAnomalyNoAbs(zv, thr) ==
    /\ zv.t = "num"
    /\ zv.s > 0
    /\ (thr.n < 0 \/ RLess(RMul(thr, thr), Sq(zv)))

\* if abs(z) > z_threshold (False for NaN)
IsAnomaly(zv, thr) ==
    /\ zv.t = "num"
    /\ (thr.n < 0 \/ RLess(RMul(thr, thr), Sq(zv)))

\* def detect_anomalies_with_visualization(data_stream, window_size=10, z_threshold=3)
DefaultWindowSize == 10

DefaultZThreshold == 3

DrvVals == {Int2Rat(-1), Int2Rat(0), Rat(5, 2)}

\* the values a stream takes in the runs with the default window, which need
\* more updates to fill the window
LongWindowVals == {Int2Rat(0), Int2Rat(1)}

StreamVals == IF window_size > MaxWindow THEN LongWindowVals ELSE DrvVals

\* the number of update() calls a run is followed for
TickBound ==
    IF window_size > MaxWindow THEN window_size + (MaxTicks - MaxWindow)
                               ELSE MaxTicks

WindowSizes == (-1)..MaxWindow

Thresholds == {Int2Rat(-1), Int2Rat(0), Rat(1, 2), Int2Rat(1), Rat(3, 2)}

Init ==
    /\ phase = "entry"
    /\ \/ /\ window_size \in WindowSizes
          /\ z_threshold \in Thresholds
       \/ /\ window_size = DefaultWindowSize
          /\ z_threshold = Int2Rat(DefaultZThreshold)
    /\ data_points = <<>>
    /\ time_points = <<>>
    /\ anomaly_points = <<>>
    /\ table_widget = <<>>
    /\ anomaly_table_widget = <<>>
    /\ curve = <<>>
    /\ scatter = <<>>
    /\ timer = FALSE
    /\ ticks = 0
    /\ outcome = "none"
    /\ z = None
    /\ GenIdle
    /\ FnIdle

drv_state == <<data_points, time_points, anomaly_points, table_widget,
               anomaly_table_widget, curve, scatter, ticks, outcome, z>>

\* the call: the argument check, then the widgets and the timer
Enter ==
    /\ phase = "entry"
    /\ IF InvalidArgs(window_size, z_threshold)
       THEN phase' = "raised" /\ UNCHANGED timer
       ELSE \/ phase' = "running" /\ timer' = TRUE
            \/ phase' = "setup_error" /\ UNCHANGED timer
    /\ UNCHANGED <<window_size, z_threshold, drv_state>>
    /\ UNCHANGED <<gen_vars, fn_vars>>

\* update(): next(data_stream) raises StopIteration
UpdateStop ==
    /\ outcome' = "stop"
    /\ timer' = FALSE
    /\ z' = None
    /\ UNCHANGED <<data_points, time_points, anomaly_points, table_widget,
                   anomaly_table_widget, curve, scatter>>

\* update(): next(data_stream) raises another exception
UpdateError ==
    /\ outcome' = "error"
    /\ z' = None
    /\ UNCHANGED <<timer, data_points, time_points, anomaly_points,
                   table_widget, anomaly_table_widget, curve, scatter>>

\* update(): next(data_stream) returns data_point
UpdateValue(data_point) ==
    LET frame == Frame(data_points)
        data == Append(data_points, data_point)
        mean == moving_average(data, window_size)
        std_dev == standard_deviation(data, window_size)
        zv == z_score(data_point, mean, std_dev)
    IN  /\ outcome' = "value"
        /\ time_points' = Append(time_points, frame)
        /\ data_points' = data
        /\ IF ShouldScore(Len(data), window_size)
           THEN /\ z' = zv
                /\ IF IsAnomaly(zv, z_threshold)
                   THEN /\ anomaly_points' = Append(anomaly_points,
                               [time |-> frame, value |-> data_point, z |-> zv])
                        /\ anomaly_table_widget' = add_row_to_anomaly_table(
                               anomaly_table_widget, frame, data_point, zv)
                        /\ table_widget' = add_row_to_table(
                               table_widget, frame, data_point, zv, TRUE)
                   ELSE /\ table_widget' = add_row_to_table(
                               table_widget, frame, data_point, zv, FALSE)
                        /\ UNCHANGED <<anomaly_points, anomaly_table_widget>>
           ELSE /\ z' = None
                /\ table_widget' = add_row_to_table(
                       table_widget, frame, data_point, None, FALSE)
                /\ UNCHANGED <<anomaly_points, anomaly_table_widget>>
        /\ curve' = [x |-> time_points', y |-> data_points']
        /\ scatter' = [j \in 1..Len(anomaly_points') |->
                          <<anomaly_points'[j].time, anomaly_points'[j].value>>]
        /\ UNCHANGED timer

\* one firing of the timer
Update ==
    /\ phase = "running"
    /\ timer
    /\ ticks < TickBound
    /\ ticks' = ticks + 1
    /\ \/ UpdateStop
       \/ UpdateError
       \/ \E data_point \in StreamVals : UpdateValue(data_point)
    /\ UNCHANGED <<phase, window_size, z_threshold>>
    /\ UNCHANGED <<gen_vars, fn_vars>>

Next == Enter \/ Update

Spec == Init /\ [][Next]_vars

---------------------------------------------------------------------------
(* Claims about the driver *)

\* the z-score of the observation with time index k - 1, recomputed from the
\* history as it stood when that observation had just been appended
ZAt(k) ==
    LET prefix == SubSeq(data_points, 1, k)
    IN  z_score(data_points[k], moving_average(prefix, window_size),
                standard_deviation(prefix, window_size))

\* abs(zv) > z_threshold for a positive threshold, by squares
Exceeds(zv) ==
    /\ zv.t = "num"
    /\ zv.s # 0
    /\ zv.n * z_threshold.d * z_threshold.d > z_threshold.n * z_threshold.n * zv.d

\* C1: update() computes a score for the value it appended exactly when the
\* history is then longer than window_size; the rows of the observations
\* 0 .. window_size-1 show no z-score and are not flagged, every later row
\* shows one, and no anomaly has a time index below window_size.
C1_FillPeriod ==
    phase = "running" =>
        /\ outcome = "value" => ((z.t # "none") <=> (Len(data_points) > window_size))
        /\ \A i \in 1..Len(table_widget) :
              LET row == table_widget[i]
              IN  /\ (row.z_score.kind = "N/A") <=> (PyInt(row.time) < window_size)
                  /\ PyInt(row.time) < window_size => ~row.highlighted
        /\ \A k \in 0..(Len(data_points) - 1) :
              \E i \in 1..Len(table_widget) : PyInt(table_widget[i].time) = k
        /\ \A j \in 1..Len(anomaly_points) : anomaly_points[j].time >= window_size
        /\ \A j \in 1..Len(anomaly_table_widget) :
              PyInt(anomaly_table_widget[j].time) >= window_size

C1_Witness ==
    /\ phase = "running"
    /\ window_size = 2
    /\ Len(data_points) = 4
    /\ outcome = "value"
    /\ z.t = "num"
    /\ table_widget[2].z_score.kind = "N/A"
    /\ table_widget[3].z_score.kind = "fixed"

\* C3: with window_size <= 0 or z_threshold <= 0 the call ends in ValueError
\* at the caller, and then nothing was pulled from the stream, the history
\* is empty, the tables have no row and no timer runs; with valid arguments
\* it does not raise.
C3_InvalidArgs ==
    /\ (phase # "entry" /\ (window_size <= 0 \/ z_threshold.n <= 0)) =>
          phase = "raised"
    /\ phase = "raised" =>
          /\ window_size <= 0 \/ z_threshold.n <= 0
          /\ ticks = 0 /\ outcome = "none"
          /\ data_points = <<>> /\ time_points = <<>>
          /\ table_widget = <<>> /\ anomaly_table_widget = <<>>
          /\ anomaly_points = <<>>
          /\ ~timer

C3_Witness ==
    /\ phase = "raised"
    /\ window_size = 2
    /\ z_threshold = Int2Rat(0)

\* C8: the main table has one row per observation of the history, in time
\* order, showing its time index and value; the anomaly table and the
\* anomaly point list (and the scatter plot) hold, in time order, exactly the
\* observations with time index >= window_size whose z-score, recomputed
\* from the history, has abs(z) > z_threshold; exactly those rows of the
\* main table are highlighted.
C8_Presentation ==
    phase = "running" =>
        /\ Len(table_widget) = Len(data_points)
        /\ \A i \in 1..Len(table_widget) :
              /\ PyInt(table_widget[i].time) = i - 1
              /\ table_widget[i].value = Fmt2(data_points[i])
        /\ Len(anomaly_table_widget) = Len(anomaly_points)
        /\ Len(scatter) = Len(anomaly_points)
        /\ \A j \in 1..Len(anomaly_points) :
              LET a == anomaly_points[j]
              IN  /\ a.time + 1 \in 1..Len(data_points)
                  /\ a.value = data_points[a.time + 1]
                  /\ PyInt(anomaly_table_widget[j].time) = a.time
                  /\ anomaly_table_widget[j].value = Fmt2(a.value)
                  /\ anomaly_table_widget[j].z_score = table_widget[a.time + 1].z_score
                  /\ scatter[j] = <<a.time, a.value>>
                  /\ j > 1 => anomaly_points[j - 1].time < a.time
        /\ \A k \in 1..Len(data_points) :
              LET flagged == k - 1 >= window_size /\ Exceeds(ZAt(k))
              IN  /\ flagged <=> (\E j \in 1..Len(anomaly_points) :
                                     /\ anomaly_points[j].time = k - 1
                                     /\ anomaly_points[j].z = ZAt(k))
                  /\ flagged <=> table_widget[k].highlighted

C8_Witness ==
    /\ phase = "running"
    /\ Len(anomaly_points) = 2
    /\ anomaly_points[1].z.s = -1
    /\ anomaly_points[2].z.s = 1
    /\ \E k \in 1..Len(table_widget) :
          /\ table_widget[k].z_score.kind = "fixed"
          /\ ~table_widget[k].highlighted

HistoryWellFormed ==
    /\ Len(time_points) = Len(data_points)
    /\ \A i \in 1..Len(time_points) : time_points[i] = i - 1

HistoryStep ==
    /\ \/ /\ data_points' = data_points
          /\ time_points' = time_points
       \/ /\ outcome' = "value"
          /\ Len(data_points') = Len(data_points) + 1
          /\ SubSeq(data_points', 1, Len(data_points)) = data_points
          /\ Len(time_points') = Len(time_points) + 1
          /\ SubSeq(time_points', 1, Len(time_points)) = time_points
          /\ time_points'[Len(time_points')] = Len(data_points)
    /\ (ticks' # ticks /\ outcome' \in {"stop", "error"}) =>
          (data_points' = data_points /\ time_points' = time_points)
    /\ (ticks' # ticks /\ outcome' = "value") =>
          Len(data_points') = Len(data_points) + 1

\* C9: every step keeps the history append-only: the time indices are
\* 0, 1, 2, ... and as many as the values, a step changes the two lists only
\* by appending one value with the next time index, and an update() whose
\* fetch ends in StopIteration or an error leaves both lists unchanged.
C9_History == [][HistoryWellFormed /\ HistoryWellFormed' /\ HistoryStep]_vars

C9_Witness ==
    /\ phase = "running"
    /\ Len(data_points) = 3
    /\ time_points = <<0, 1, 2>>
    /\ outcome = "error"
    /\ ticks = 5

\* C10: the value update() scores is the last element of the window used
\* for the mean and the standard deviation, every z-score it computes has
\* z^2 <= window_size - 1, and when z_threshold^2 >= window_size - 1 (as with
\* the defaults window_size = 10, z_threshold = 3) nothing is ever flagged.
C10_Bound ==
    phase = "running" =>
        /\ (outcome = "value" /\ z.t # "none") =>
              /\ z = ZAt(Len(data_points))
              /\ Len(PySliceLast(data_points, window_size)) = window_size
              /\ PySliceLast(data_points, window_size)[window_size]
                    = data_points[Len(data_points)]
        /\ z.t # "none" => (z.t = "num" /\ z.n <= (window_size - 1) * z.d)
        /\ \A j \in 1..Len(anomaly_points) :
              anomaly_points[j].z.n <= (window_size - 1) * anomaly_points[j].z.d
        /\ z_threshold.n * z_threshold.n >=
              (window_size - 1) * z_threshold.d * z_threshold.d =>
              /\ anomaly_points = <<>>
              /\ anomaly_table_widget = <<>>
              /\ \A i \in 1..Len(table_widget) : ~table_widget[i].highlighted

C10_Witness ==
    /\ phase = "running"
    /\ window_size = DefaultWindowSize
    /\ z_threshold = Int2Rat(DefaultZThreshold)
    /\ outcome = "value"
    /\ z = Root(1, Int2Rat(9))
    /\ Len(data_points) = 12
    /\ anomaly_points = <<>>

====
